---------------------------- MODULE Spec2Model ----------------------------
(***************************************************************************)
(* Model of the training-record extractor (src/src/parser.py) and of the   *)
(* metrics engine (src/src/data.py, src/app.py).                           *)
(*                                                                         *)
(* A text line is a sequence of tokens.  A token is a record: a word       *)
(* (k = "w", its text in s), an hour pair "<c>: h:mm/h:mm" (k = "h") or a  *)
(* white-space character at the edge of a line (k = "sp").  A regular      *)
(* expression of the parser is modelled by an operator that searches the   *)
(* token sequence the way re.search searches the characters (leftmost      *)
(* match first).  Hours are kept in minutes, so that h + m/60 is exact.    *)
(*                                                                         *)
(* The extractor only ever looks backwards in its input (lines[prev_idx]   *)
(* with prev_idx < i), so the document is revealed one line or one page at *)
(* a time: `pages` is the part of pdf.pages consumed so far.               *)
(***************************************************************************)
EXTENDS Integers, Sequences, FiniteSets, TLC

VARIABLES
    pages,           \* parser.py:45  the pages consumed so far, each a sequence of raw lines
    current_person,  \* parser.py:40
    current_qs,      \* parser.py:41
    current_meta,    \* parser.py:42
    modules,         \* parser.py:20
    pdf_error,       \* parser.py:44-46  pdfplumber raised while a page was opened or read
    result,          \* parser.py:130    what extract_data_from_pdf hands to its caller
    raw_data,        \* data.py:4     the argument of process_training_data
    df,              \* data.py:11    the processed table (NoFrame before processing)
    summary,         \* data.py:64    last result of get_summary_stats
    cohort,          \* data.py:121   last result of get_cohort_stats
    mod_stats,       \* app.py:125    last module statistics of the dashboard
    valid_people,    \* app.py:55     the people listed by the dashboard
    app_error        \* app.py:53-204 the exception that ended the script run

vars == <<pages, current_person, current_qs, current_meta, modules,
          pdf_error, result,
          raw_data, df, summary, cohort, mod_stats, valid_people, app_error>>

parserVars == <<pages, current_person, current_qs, current_meta, modules,
                pdf_error, result>>
dataVars == <<raw_data, df, summary, cohort, mod_stats, valid_people,
              app_error>>

\* ------------------------------------------------------------------ bounds
MaxLines == 3
MaxPages == 2

\* ------------------------------------------------------------------ tokens
W(s) == [k |-> "w", s |-> s]
H(c, ist, soll) == [k |-> "h", c |-> c, ist |-> ist, soll |-> soll]
SP == [k |-> "sp"]

\* str.strip(): drop the white space at both ends of a line (parser.py:52, 60)
RECURSIVE LStrip(_)
LStrip(line) ==
    IF line # <<>> /\ Head(line) = SP THEN LStrip(Tail(line)) ELSE line

RECURSIVE RStrip(_)
RStrip(line) ==
    IF line # <<>> /\ line[Len(line)] = SP
    THEN RStrip(SubSeq(line, 1, Len(line) - 1))
    ELSE line

Strip(line) == RStrip(LStrip(line))

\* The positions at which the phrase `pat` occurs in `line`.
Occurs(pat, line) ==
    { p \in 1..Len(line) :
        /\ p + Len(pat) - 1 <= Len(line)
        /\ SubSeq(line, p, p + Len(pat) - 1) = pat }

Min(S) == CHOOSE x \in S : \A y \in S : x <= y

\* "Ziel der modularen Grundlagenausbildung" in line  (parser.py:57)
AnchorPhrase == <<W("Ziel der modularen Grundlagenausbildung")>>
HasAnchor(line) == Occurs(AnchorPhrase, line) # {}

\* meta_patterns, in the dict's insertion order (parser.py:31-38).  Every
\* pattern is "<phrase>.*" under re.search: the line contains the phrase.
MetaKeys == <<"Erste Hilfe", "Einsatzfaehigkeit", "Truppmitglied",
              "Truppfuehrer", "Atemschutz", "Sprechfunk">>

MetaPhrases(key) ==
    CASE key = "Erste Hilfe" ->
            { <<W("Erste-Hilfe")>>, <<W("Ausbildung in Erster Hilfe")>> }
      [] key = "Einsatzfaehigkeit" ->
            { <<W("Qualifikationsstufe"), W("Einsatzfaehigkeit")>> }
      [] key = "Truppmitglied" ->
            { <<W("Qualifikationsstufe"), W("Truppmitglied")>> }
      [] key = "Truppfuehrer" ->
            { <<W("Qualifikationsstufe"), W("Truppfuehrende")>> }
      [] key = "Atemschutz" -> { <<W("Atemschutzgeraetetraeger")>> }
      [] key = "Sprechfunk" -> { <<W("Sprechfunker Digitalfunk")>> }

MetaMatches(key, line) == \E ph \in MetaPhrases(key) : Occurs(ph, line) # {}

\* The loop of parser.py:72-79: the index of the first key whose pattern
\* matches, 0 when none does.
FirstMetaKey(line) ==
    LET hits == { j \in 1..Len(MetaKeys) : MetaMatches(MetaKeys[j], line) }
    IN IF hits = {} THEN 0 ELSE Min(hits)

\* qs_pattern (parser.py:27): "MGA - (QS\d+|Ergaenzungsmodule)(?: - .+)?"
QSCodes == { "QS1", "QS2", "QS3", "Ergaenzungsmodule" }

QSOccurs(line) ==
    { p \in 1..Len(line) :
        /\ p + 2 <= Len(line)
        /\ line[p] = W("MGA") /\ line[p + 1] = W("-")
        /\ line[p + 2].k = "w" /\ line[p + 2].s \in QSCodes }

\* qs_match.group(1) of the leftmost match (parser.py:85-87)
QSGroup1(line) == line[Min(QSOccurs(line)) + 2].s

\* module_pattern (parser.py:23):
\*   "MGA - (\S+) (.+?) ((?:[TPK]: \d+:\d+/\d+:\d+\s*)+) (Absolviert|In Arbeit|Nicht absolviert)"
Statuses == { "Absolviert", "In Arbeit", "Nicht absolviert" }
IsStatus(tok) == tok.k = "w" /\ tok.s \in Statuses
IsHour(tok) == tok.k = "h"

\* The end of the hour run that starts at q: the first position after q whose
\* token is no hour pair (Len(line) + 1 when the run reaches the end).
FirstNonHour(line, q) ==
    Min({ j \in q..(Len(line) + 1) : j = Len(line) + 1 \/ ~IsHour(line[j]) })

\* With "MGA - <id>" at p: the positions q at which the hour group can start,
\* after a title of at least one token (p+3..q-1), the run of hour pairs
\* being followed by a status.
HourStarts(line, p) ==
    { q \in (p + 4)..Len(line) :
        /\ IsHour(line[q])
        /\ LET r == FirstNonHour(line, q)
           IN r <= Len(line) /\ IsStatus(line[r]) }

\* The positions at which module_pattern matches.
ModuleStarts(line) ==
    { p \in 1..(Len(line) - 2) :
        /\ line[p] = W("MGA") /\ line[p + 1] = W("-")
        /\ line[p + 2].k = "w"
        /\ HourStarts(line, p) # {} }

ModuleMatches(line) == ModuleStarts(line) # {}

\* re.search: the leftmost start, then the lazy title takes the shortest run;
\* id at p+2, title in p+3..q-1, hour pairs in q..r-1, status at r.
ModuleMatch(line) ==
    LET p == Min(ModuleStarts(line))
        q == Min(HourStarts(line, p))
    IN [p |-> p, q |-> q, r |-> FirstNonHour(line, q)]

\* parse_time (parser.py:5-13) of "h:mm", in minutes
parse_time(t) == IF t = <<0, 0>> THEN 0 ELSE t[1] * 60 + t[2]

\* hours_data of parser.py:99-114: the last pair of a category wins.
RECURSIVE HoursData(_, _)
HoursData(toks, acc) ==
    IF toks = <<>> THEN acc
    ELSE LET h == Head(toks)
             upd == CASE h.c = "T" -> [acc EXCEPT !.T_Ist = parse_time(h.ist),
                                                  !.T_Soll = parse_time(h.soll)]
                      [] h.c = "P" -> [acc EXCEPT !.P_Ist = parse_time(h.ist),
                                                  !.P_Soll = parse_time(h.soll)]
                      [] h.c = "K" -> [acc EXCEPT !.K_Ist = parse_time(h.ist),
                                                  !.K_Soll = parse_time(h.soll)]
                      [] OTHER -> acc
         IN HoursData(Tail(toks), upd)

ZeroHours == [T_Ist |-> 0, T_Soll |-> 0, P_Ist |-> 0, P_Soll |-> 0,
              K_Ist |-> 0, K_Soll |-> 0]

\* ------------------------------------------------------------ parse state
Unknown == <<W("Unknown")>>
Sonstige == "Sonstige"
EmptyMeta == [k \in {} |-> <<>>]

\* current_meta[key] = line  (parser.py:77)
SetMeta(meta, key, line) ==
    [k \in DOMAIN meta \cup {key} |-> IF k = key THEN line ELSE meta[k]]

\* meta_fields = {f"meta_{k}": v for k, v in current_meta.items()}
\* (parser.py:118): a new dict, one column per key of the context.  The
\* column "meta_<k>" is the entry k of the record's field `meta`.
MetaFieldsMutant(meta) == [k \in DOMAIN meta \ {"Erste Hilfe"} |-> meta[k]]

MetaFields(meta) == [k \in DOMAIN meta |-> meta[k]]

\* 1. Detect New Person Start (parser.py:57-66): look backwards on the page
\* for the nearest non-blank line; without one nothing is assigned.
\* As PersonStart, but the scan stops at the line farthest from the marker.
PersonStartMutant(st, lines, i) ==
    LET cands == { j \in 1..(i - 1) : Strip(lines[j]) # <<>> }
    IN IF cands = {} THEN st
       ELSE LET prev_idx == CHOOSE j \in cands : \A c \in cands : j <= c
            IN [st EXCEPT !.person = Strip(lines[prev_idx]),
                          !.qs = Sonstige,
                          !.meta = EmptyMeta]

\* As PersonStart, but a marker without a name line before it on the page
\* starts an unnamed person.
PersonStartUnresolved(st, lines, i) ==
    LET cands == { j \in 1..(i - 1) : Strip(lines[j]) # <<>> }
    IN IF cands = {}
       THEN [st EXCEPT !.person = Unknown, !.qs = Sonstige, !.meta = EmptyMeta]
       ELSE LET prev_idx == CHOOSE j \in cands : \A c \in cands : c <= j
            IN [st EXCEPT !.person = Strip(lines[prev_idx]),
                          !.qs = Sonstige,
                          !.meta = EmptyMeta]

PersonStart(st, lines, i) ==
    LET cands == { j \in 1..(i - 1) : Strip(lines[j]) # <<>> }
    IN IF cands = {} THEN st
       ELSE LET prev_idx == CHOOSE j \in cands : \A c \in cands : c <= j
            IN [st EXCEPT !.person = Strip(lines[prev_idx]),
                          !.qs = Sonstige,
                          !.meta = EmptyMeta]

\* As MetaLine, but the context is started anew with the matched key.
MetaLineMutant(st, line) ==
    [st EXCEPT !.meta = SetMeta(EmptyMeta, MetaKeys[FirstMetaKey(line)], line)]

\* 2. Metadata line (parser.py:71-82)
MetaLine(st, line) ==
    [st EXCEPT !.meta = SetMeta(st.meta, MetaKeys[FirstMetaKey(line)], line)]

\* 3. QS header (parser.py:85-88)
QSHeader(st, line) == [st EXCEPT !.qs = QSGroup1(line)]

\* 4. Module (parser.py:91-128)
ModuleRecord(st, line) ==
    LET m == ModuleMatch(line)
        hours_data == HoursData(SubSeq(line, m.q, m.r - 1), ZeroHours)
    IN [person_name |-> st.person,
        id          |-> line[m.p + 2].s,
        title       |-> Strip(SubSeq(line, m.p + 3, m.q - 1)),
        status      |-> line[m.r].s,
        qs_level    |-> st.qs,
        T_Ist |-> hours_data.T_Ist, T_Soll |-> hours_data.T_Soll,
        P_Ist |-> hours_data.P_Ist, P_Soll |-> hours_data.P_Soll,
        K_Ist |-> hours_data.K_Ist, K_Soll |-> hours_data.K_Soll,
        meta        |-> MetaFields(st.meta)]

\* As ModuleLine, but a module already recorded for the person is not added again.
ModuleLineMutant(st, line) ==
    LET rec == ModuleRecord(st, line)
    IN IF \E j \in 1..Len(st.modules) :
              /\ st.modules[j].person_name = rec.person_name
              /\ st.modules[j].id = rec.id
       THEN st
       ELSE [st EXCEPT !.modules = Append(st.modules, rec)]

ModuleLine(st, line) ==
    [st EXCEPT !.modules = Append(st.modules, ModuleRecord(st, line))]

\* The body of the loop over the lines of a page (parser.py:51-128), with the
\* module test moved in front of the metadata test.
LineStepMutant(st, lines, i) ==
    LET line == Strip(lines[i])
    IN IF line = <<>> THEN st
       ELSE IF HasAnchor(line) THEN PersonStart(st, lines, i)
       ELSE IF ModuleMatches(line) THEN ModuleLine(st, line)
       ELSE IF FirstMetaKey(line) # 0 THEN MetaLine(st, line)
       ELSE IF QSOccurs(line) # {} THEN QSHeader(st, line)
       ELSE st

\* The body of the loop over the lines of a page (parser.py:51-128)
LineStep(st, lines, i) ==
    LET line == Strip(lines[i])
    IN IF line = <<>> THEN st
       ELSE IF HasAnchor(line) THEN PersonStart(st, lines, i)
       ELSE IF FirstMetaKey(line) # 0 THEN MetaLine(st, line)
       ELSE IF QSOccurs(line) # {} THEN QSHeader(st, line)
       ELSE IF ModuleMatches(line) THEN ModuleLine(st, line)
       ELSE st

\* ------------------------------------------------------------- the input
T100 == H("T", <<1, 0>>, <<1, 0>>)
T201 == H("T", <<2, 0>>, <<1, 0>>)
P001 == H("P", <<0, 0>>, <<1, 0>>)

BlankLine  == <<SP>>
NameLine   == <<SP, W("Hans"), W("Muster"), SP>>
MarkerLine == <<W("1."), W("Ziel der modularen Grundlagenausbildung"),
                W("Qualifikationsstufe"), W("Truppmitglied")>>
MetaEHLine == <<W("Erste-Hilfe"), W("Bestanden")>>
MetaTwoLine == <<W("Sprechfunker Digitalfunk"), W("Atemschutzgeraetetraeger")>>
QSLine     == <<W("MGA"), W("-"), W("QS1"), W("-"), W("Truppmann")>>
ModALine   == <<W("MGA"), W("-"), W("M1.1"), W("Basics"), T100, W("Absolviert")>>
ModBLine   == <<SP, W("MGA"), W("-"), W("M2"), W("Funk"), T201, P001, W("In Arbeit")>>
ModEHLine  == <<W("MGA"), W("-"), W("M3"), W("Ausbildung in Erster Hilfe"),
                T100, W("Absolviert")>>
ModQSLine  == <<W("MGA"), W("-"), W("QS2"), W("Aufbau"), T100, W("Nicht absolviert")>>

\* The raw lines a page may hold.
LineSet == { BlankLine, NameLine, MarkerLine, MetaEHLine, MetaTwoLine, QSLine,
             ModALine, ModBLine, ModEHLine, ModQSLine }

LineCount == LET RECURSIVE Sum(_)
                 Sum(ps) == IF ps = <<>> THEN 0 ELSE Len(Head(ps)) + Sum(Tail(ps))
             IN Sum(pages)

ParseState == [person |-> current_person, qs |-> current_qs,
               meta |-> current_meta, modules |-> modules]

\* -------------------------------------------------------------- extractor
\* extract_data_from_pdf has not returned yet.
NoResult == [running |-> TRUE]

InitParser ==
    /\ pages = <<>>
    /\ current_person = Unknown
    /\ current_qs = Sonstige
    /\ current_meta = EmptyMeta
    /\ modules = <<>>
    /\ pdf_error = FALSE
    /\ result = NoResult

\* As NextPage, with the tier and the metadata context started anew on
\* every page.
NextPageMutant ==
    /\ result = NoResult
    /\ Len(pages) < MaxPages
    /\ pages' = Append(pages, <<>>)
    /\ current_qs' = Sonstige
    /\ current_meta' = EmptyMeta
    /\ UNCHANGED <<current_person, modules, pdf_error, result>>
    /\ UNCHANGED dataVars

\* for page in pdf.pages (parser.py:45-50): the next page is opened; a page
\* that gets no line is a page without text.
NextPage ==
    /\ result = NoResult
    /\ Len(pages) < MaxPages
    /\ pages' = Append(pages, <<>>)
    /\ UNCHANGED <<current_person, current_qs, current_meta, modules,
                   pdf_error, result>>
    /\ UNCHANGED dataVars

\* for i, line in enumerate(lines) (parser.py:51-128): one line of the
\* current page is read and classified.
ReadLine ==
    /\ result = NoResult
    /\ pages # <<>>
    /\ LineCount < MaxLines
    /\ \E l \in LineSet :
         LET lines == Append(pages[Len(pages)], l)
         IN \E st \in { LineStep(ParseState, lines, Len(lines)) } :
              /\ pages' = [pages EXCEPT ![Len(pages)] = lines]
              /\ current_person' = st.person
              /\ current_qs' = st.qs
              /\ current_meta' = st.meta
              /\ modules' = st.modules
    /\ UNCHANGED <<pdf_error, result>>
    /\ UNCHANGED dataVars

\* The outcome of a call in which pdfplumber raised: the function has no
\* handler (parser.py:15-130), the exception reaches the caller and the
\* local list of records is lost.
PageErrorPartial(mods) == [records |-> mods]

PageError(mods) == [error |-> TRUE]

\* pdfplumber.open, pdf.pages or page.extract_text raises (parser.py:44-46),
\* before the first page or at any later page.
ExtractFail ==
    /\ result = NoResult
    /\ pdf_error' = TRUE
    /\ result' = PageError(modules)
    /\ UNCHANGED <<pages, current_person, current_qs, current_meta, modules>>
    /\ UNCHANGED dataVars

\* return modules (parser.py:130), after the last page.
Return ==
    /\ result = NoResult
    /\ result' = [records |-> modules]
    /\ UNCHANGED <<pages, current_person, current_qs, current_meta, modules,
                   pdf_error>>
    /\ UNCHANGED dataVars

\* ---------------------------------------------------------- metrics engine
\* A DataFrame is its set of columns and its sequence of rows; pd.DataFrame()
\* has neither.  A floating-point quotient a / b * 100 is kept as the exact
\* fraction 100a / b.
NoFrame == [none |-> TRUE]
EmptyFrame == [columns |-> {}, rows |-> <<>>]

RawColumns == { "person_name", "id", "title", "status", "qs_level",
                "T_Ist", "T_Soll", "P_Ist", "P_Soll", "K_Ist", "K_Soll" }
DerivedColumns == { "Total_Ist", "Total_Soll", "Effective_Ist", "Progress" }

Rat(n, d) == [num |-> n, den |-> d]
RatEq(a, b) == a.num * b.den = b.num * a.den
RatLeq(a, b) == a.num * b.den <= b.num * a.den
RatLess(a, b) == a.num * b.den < b.num * a.den
Hundred == Rat(100, 1)
Zero == Rat(0, 1)

min(a, b) == IF a <= b THEN a ELSE b

\* df['Progress'].clip(upper=100.0)  (data.py:38)
Clip100(x) == IF RatLess(Hundred, x) THEN Hundred ELSE x

\* The derived columns of one row (data.py:18-38).
DerivedRow(r, total_ist, total_soll, effective_ist) ==
    [person_name |-> r.person_name, id |-> r.id, title |-> r.title,
     status |-> r.status, qs_level |-> r.qs_level,
     T_Ist |-> r.T_Ist, T_Soll |-> r.T_Soll,
     P_Ist |-> r.P_Ist, P_Soll |-> r.P_Soll,
     K_Ist |-> r.K_Ist, K_Soll |-> r.K_Soll,
     Total_Ist |-> total_ist,
     Total_Soll |-> total_soll,
     Effective_Ist |-> effective_ist,
     Progress |-> Clip100(IF total_soll > 0
                          THEN Rat(effective_ist * 100, total_soll)
                          ELSE Hundred)]

\* As ProcessRow, with no progress where nothing is required.
ProcessRowNoTarget(r) ==
    LET row == DerivedRow(r, r.T_Ist + r.P_Ist + r.K_Ist,
                          r.T_Soll + r.P_Soll + r.K_Soll,
                          min(r.T_Ist, r.T_Soll) + min(r.P_Ist, r.P_Soll)
                            + min(r.K_Ist, r.K_Soll))
    IN IF row.Total_Soll > 0 THEN row ELSE [row EXCEPT !.Progress = Zero]

\* As ProcessRow, with the actual hours counted in full.
ProcessRowUncapped(r) ==
    DerivedRow(r, r.T_Ist + r.P_Ist + r.K_Ist, r.T_Soll + r.P_Soll + r.K_Soll,
               r.T_Ist + r.P_Ist + r.K_Ist)

\* As ProcessRow, with the cap taken on the totals instead of per category.
ProcessRowCompensating(r) ==
    DerivedRow(r, r.T_Ist + r.P_Ist + r.K_Ist, r.T_Soll + r.P_Soll + r.K_Soll,
               min(r.T_Ist + r.P_Ist + r.K_Ist, r.T_Soll + r.P_Soll + r.K_Soll))

ProcessRow(r) ==
    DerivedRow(r, r.T_Ist + r.P_Ist + r.K_Ist, r.T_Soll + r.P_Soll + r.K_Soll,
               min(r.T_Ist, r.T_Soll) + min(r.P_Ist, r.P_Soll)
                 + min(r.K_Ist, r.K_Soll))

\* process_training_data (data.py:4-40)
process_training_data(raw) ==
    IF raw = <<>> THEN EmptyFrame
    ELSE [columns |-> RawColumns \cup DerivedColumns,
          rows    |-> [i \in 1..Len(raw) |-> ProcessRow(raw[i])]]

\* df.empty
IsEmpty(frame) == frame.columns = {} \/ frame.rows = <<>>

\* df[<condition on the rows>]
RECURSIVE SumOf(_, _)
SumOf(rows, col) ==
    IF rows = <<>> THEN 0 ELSE Head(rows)[col] + SumOf(Tail(rows), col)

Completed(rows) ==
    LET IsDone(r) == r.status = "Absolviert" IN Len(SelectSeq(rows, IsDone))

\* As get_summary_stats, with the overall progress taken from the hours.
get_summary_stats_hours(frame) ==
    IF IsEmpty(frame)
    THEN [total_modules |-> 0, completed_modules |-> 0, total_hours_ist |-> 0,
          total_hours_soll |-> 0, overall_progress |-> Zero]
    ELSE LET total_modules == Len(frame.rows)
             completed_modules == Completed(frame.rows)
             ist == SumOf(frame.rows, "Total_Ist")
             soll == SumOf(frame.rows, "Total_Soll")
         IN [total_modules |-> total_modules,
             completed_modules |-> completed_modules,
             total_hours_ist |-> ist,
             total_hours_soll |-> soll,
             overall_progress |->
                 IF soll > 0 THEN Rat(ist * 100, soll) ELSE Zero]

\* get_summary_stats (data.py:42-70)
get_summary_stats(frame) ==
    IF IsEmpty(frame)
    THEN [total_modules |-> 0, completed_modules |-> 0, total_hours_ist |-> 0,
          total_hours_soll |-> 0, overall_progress |-> Zero]
    ELSE LET total_modules == Len(frame.rows)
             completed_modules == Completed(frame.rows)
         IN [total_modules |-> total_modules,
             completed_modules |-> completed_modules,
             total_hours_ist |-> SumOf(frame.rows, "Total_Ist"),
             total_hours_soll |-> SumOf(frame.rows, "Total_Soll"),
             overall_progress |->
                 IF total_modules > 0
                 THEN Rat(completed_modules * 100, total_modules)
                 ELSE Zero]

\* Series.unique() / DataFrame.drop_duplicates(): first occurrences, in order.
RECURSIVE Unique(_)
Unique(seq) ==
    IF seq = <<>> THEN <<>>
    ELSE LET init == Unique(SubSeq(seq, 1, Len(seq) - 1))
             last == seq[Len(seq)]
         IN IF \E j \in 1..Len(init) : init[j] = last
            THEN init ELSE Append(init, last)

\* One entry of module_stats (data.py:99-119): the records are selected by
\* the id alone.
ModuleStat(frame, row) ==
    LET mid == row[1]
        HasId(r) == r.id = mid
        mod_records == SelectSeq(frame.rows, HasId)
        total_attempts == Len(mod_records)
        completed == Completed(mod_records)
    IN [ID |-> mid, Modul |-> row[2], QS |-> row[3],
        Absolventen |-> completed, Gesamt |-> total_attempts,
        Quote |-> IF total_attempts > 0
                  THEN Rat(completed * 100, total_attempts) ELSE Zero]

\* As PersonProgress, with the statistics taken over the whole table.
PersonProgressWhole(frame, person) ==
    LET stats == get_summary_stats(frame)
    IN [Name |-> person, Progress |-> stats.overall_progress,
        Completed |-> stats.completed_modules, Total |-> stats.total_modules]

\* As PersonProgress, with a person's records taken as the run of adjacent
\* rows that starts at the person's first row.
PersonProgressAdjacent(frame, person) ==
    LET first == CHOOSE i \in 1..Len(frame.rows) :
                    /\ frame.rows[i].person_name = person
                    /\ \A j \in 1..(i - 1) : frame.rows[j].person_name # person
        last == CHOOSE i \in first..Len(frame.rows) :
                    /\ \A j \in first..i : frame.rows[j].person_name = person
                    /\ (i = Len(frame.rows)
                          \/ frame.rows[i + 1].person_name # person)
        stats == get_summary_stats([columns |-> frame.columns,
                                    rows |-> SubSeq(frame.rows, first, last)])
    IN [Name |-> person, Progress |-> stats.overall_progress,
        Completed |-> stats.completed_modules, Total |-> stats.total_modules]

\* One entry of person_progress (data.py:84-92)
PersonProgress(frame, person) ==
    LET IsPerson(r) == r.person_name = person
        p_df == [columns |-> frame.columns,
                 rows |-> SelectSeq(frame.rows, IsPerson)]
        stats == get_summary_stats(p_df)
    IN [Name |-> person, Progress |-> stats.overall_progress,
        Completed |-> stats.completed_modules, Total |-> stats.total_modules]

\* get_cohort_stats (data.py:72-125); {} for an empty table.
EmptyDict == [k \in {} |-> 0]

get_cohort_stats(frame) ==
    IF IsEmpty(frame) THEN EmptyDict
    ELSE LET people == Unique([i \in 1..Len(frame.rows) |->
                                  frame.rows[i].person_name])
             unique_modules ==
                 Unique([i \in 1..Len(frame.rows) |->
                           <<frame.rows[i].id, frame.rows[i].title,
                             frame.rows[i].qs_level>>])
         IN [total_people |-> Len(people),
             person_progress |->
                 [i \in 1..Len(people) |-> PersonProgress(frame, people[i])],
             module_stats |->
                 [i \in 1..Len(unique_modules) |->
                     ModuleStat(frame, unique_modules[i])]]

\* mod_stats of the dashboard (app.py:125-134): df.groupby on the three
\* keys; the groups are kept as a set (their sort order is not modelled).
GroupStat(frame, key) ==
    LET InGroup(r) == <<r.id, r.title, r.qs_level>> = key
        x == SelectSeq(frame.rows, InGroup)
    IN [ID |-> key[1], Modul |-> key[2], QS |-> key[3],
        Absolventen |-> Completed(x), Gesamt |-> Len(x),
        Quote |-> IF Len(x) > 0 THEN Rat(Completed(x) * 100, Len(x)) ELSE Zero]

app_mod_stats(frame) ==
    { GroupStat(frame, <<frame.rows[i].id, frame.rows[i].title,
                         frame.rows[i].qs_level>>) : i \in 1..Len(frame.rows) }

\* ------------------------------------------------- inputs of the metrics
MaxRecs == 3
MaxHalfHours == 2

Anna == <<W("Anna")>>
Bert == <<W("Bert")>>
Basics == <<W("Basics")>>
Grundlagen == <<W("Grundlagen")>>
Funk == <<W("Funk")>>

Rec(person, id, title, qs, status, hours) ==
    [person_name |-> person, id |-> id, title |-> title, status |-> status,
     qs_level |-> qs,
     T_Ist |-> hours[1], T_Soll |-> hours[2],
     P_Ist |-> hours[3], P_Soll |-> hours[4],
     K_Ist |-> hours[5], K_Soll |-> hours[6]]

\* Records as the extractor emits them (without meta_* columns, which the
\* metrics never read).
DataRecSet ==
    { Rec(Anna, "M1.1", Basics, "QS1", "Absolviert", <<60, 60, 0, 0, 0, 0>>),
      Rec(Anna, "M1.1", Basics, "QS2", "In Arbeit", <<120, 60, 0, 60, 0, 0>>),
      Rec(Bert, "M1.1", Basics, "QS1", "Nicht absolviert", <<0, 60, 0, 0, 0, 0>>),
      Rec(Bert, "M1.1", Grundlagen, "QS1", "Absolviert", <<60, 60, 30, 30, 0, 0>>),
      Rec(Unknown, "M2", Funk, Sonstige, "Absolviert", <<0, 0, 0, 0, 0, 0>>),
      Rec(Anna, "M2", Funk, Sonstige, "In Arbeit", <<30, 60, 0, 0, 90, 60>>) }

RECURSIVE SeqsUpTo(_, _)
SeqsUpTo(S, n) ==
    IF n = 0 THEN { <<>> }
    ELSE LET shorter == SeqsUpTo(S, n - 1)
         IN shorter \cup { Append(q, x) : q \in shorter, x \in S }

HourVals == { 30 * k : k \in 0..MaxHalfHours }

HourRecSet ==
    { Rec(Anna, "M1.1", Basics, "QS1", "In Arbeit", <<ti, ts, pi, ps, ki, ks>>) :
        ti \in HourVals, ts \in HourVals, pi \in HourVals, ps \in HourVals,
        ki \in HourVals, ks \in HourVals }

InitDataIdle ==
    /\ raw_data = <<>>
    /\ df = NoFrame
    /\ summary = NoFrame
    /\ cohort = NoFrame
    /\ mod_stats = NoFrame
    /\ valid_people = NoFrame
    /\ app_error = "none"

\* The table of one upload: a list of at most MaxRecs records.
InitData ==
    /\ InitParser
    /\ raw_data \in SeqsUpTo(DataRecSet, MaxRecs)
    /\ df = NoFrame /\ summary = NoFrame /\ cohort = NoFrame
    /\ mod_stats = NoFrame /\ valid_people = NoFrame /\ app_error = "none"

\* One record with every combination of hours.
InitHours ==
    /\ InitParser
    /\ raw_data \in { <<r>> : r \in HourRecSet }
    /\ df = NoFrame /\ summary = NoFrame /\ cohort = NoFrame
    /\ mod_stats = NoFrame /\ valid_people = NoFrame /\ app_error = "none"

\* load_data (app.py:43-45): the records are processed.
Process ==
    /\ df = NoFrame
    /\ df' = process_training_data(raw_data)
    /\ UNCHANGED <<raw_data, summary, cohort, mod_stats, valid_people, app_error>>
    /\ UNCHANGED parserVars

Summary ==
    /\ df # NoFrame
    /\ summary' = get_summary_stats(df)
    /\ UNCHANGED <<raw_data, df, cohort, mod_stats, valid_people, app_error>>
    /\ UNCHANGED parserVars

Cohort ==
    /\ df # NoFrame
    /\ cohort' = get_cohort_stats(df)
    /\ UNCHANGED <<raw_data, df, summary, mod_stats, valid_people, app_error>>
    /\ UNCHANGED parserVars

\* if st.session_state.df is not None (app.py:53-55): the names of the
\* table's person_name column other than "Unknown" (their sort order is not
\* modelled); df['person_name'] raises KeyError on a table without that
\* column, which ends the script run.
ValidPeople ==
    /\ df # NoFrame
    /\ app_error = "none"
    /\ IF "person_name" \in df.columns
       THEN /\ valid_people' =
                 [people |-> { df.rows[i].person_name : i \in 1..Len(df.rows) }
                               \ { Unknown }]
            /\ UNCHANGED app_error
       ELSE /\ app_error' = "KeyError"
            /\ UNCHANGED valid_people
    /\ UNCHANGED <<raw_data, df, summary, cohort, mod_stats>>
    /\ UNCHANGED parserVars

\* The dashboard's module statistics (app.py:125-132), which the script
\* reaches after line 55.
ModStats ==
    /\ df # NoFrame
    /\ valid_people # NoFrame
    /\ mod_stats' = [groups |-> app_mod_stats(df)]
    /\ UNCHANGED <<raw_data, df, summary, cohort, valid_people, app_error>>
    /\ UNCHANGED parserVars

Init == InitParser /\ InitDataIdle

Next == NextPage \/ ReadLine \/ ExtractFail \/ Return

Spec == Init /\ [][Next]_vars

NextData == Process \/ ValidPeople \/ Summary \/ Cohort \/ ModStats

SpecData == InitData /\ [][NextData]_vars

SpecHours == InitHours /\ [][NextData]_vars

\* ------------------------------------------------- properties: extractor
\* The input line sequence: the concatenation of all pages in document order.
RECURSIVE Concat(_)
Concat(ps) == IF ps = <<>> THEN <<>> ELSE Head(ps) \o Concat(Tail(ps))

CurPage == pages[Len(pages)]
LastRaw == CurPage[Len(CurPage)]
LastLine == Strip(LastRaw)

\* A step that read one line (the line is LastRaw', its page CurPage').
LineRead == LineCount' = LineCount + 1

\* The category of a stripped line, by the precedence
\* marker > metadata > tier header > module record > unrecognized.
Category(line) ==
    CASE line = <<>> -> "blank"
      [] line # <<>> /\ HasAnchor(line) -> "person"
      [] OTHER ->
           IF \E j \in 1..Len(MetaKeys) : MetaMatches(MetaKeys[j], line)
           THEN "meta"
           ELSE IF QSOccurs(line) # {} THEN "qs"
           ELSE IF ModuleMatches(line) THEN "module"
           ELSE "unrecognized"

\* The category of every raw line of the input.
RawCategory == [l \in LineSet |-> Category(Strip(l))]

\* The non-blank lines before position i of a sequence of raw lines.
NonBlankBefore(ls, i) == { j \in 1..(i - 1) : Strip(ls[j]) # <<>> }
Max(S) == CHOOSE x \in S : \A y \in S : y <= x

\* C1 (as claimed): every marker line that is processed resets the current
\* tier to "Sonstige" and clears the metadata context, whatever the state
\* before it was.
C1_MarkerAlwaysResets ==
    [][ (LineRead /\ RawCategory[LastRaw'] = "person")
          => (current_qs' = Sonstige /\ current_meta' = EmptyMeta) ]_vars

\* C2: processing a line never changes the meta_* fields of the records
\* already emitted, and a newly emitted record carries exactly the metadata
\* context of the moment its module line was processed (same keys, same
\* values), which the module line leaves as it is.
C2_MetaSnapshotFrozen ==
    [][ /\ Len(modules') >= Len(modules)
        /\ \A j \in 1..Len(modules) : modules'[j].meta = modules[j].meta
        /\ \A j \in (Len(modules) + 1)..Len(modules') :
              /\ current_meta' = current_meta
              /\ DOMAIN modules'[j].meta = DOMAIN current_meta
              /\ \A k \in DOMAIN current_meta :
                    modules'[j].meta[k] = current_meta[k] ]_vars

\* C2 witness: a record emitted under one "Erste Hilfe" line still carries
\* it after a later "Erste Hilfe" line replaced the value in the context.
C2_Witness ==
    /\ Len(modules) >= 1
    /\ "Erste Hilfe" \in DOMAIN modules[1].meta
    /\ "Erste Hilfe" \in DOMAIN current_meta
    /\ current_meta["Erste Hilfe"] # modules[1].meta["Erste Hilfe"]

C4_NameFromDocument ==
    [][ (LineRead /\ RawCategory[LastRaw'] = "person") =>
            \A doc \in { Concat(pages') } :
              \A before \in { NonBlankBefore(doc, Len(doc)) } :
                before # {} => current_person' = Strip(doc[Max(before)]) ]_vars

\* C4 (amended): a marker line with a non-blank line before it on its own
\* page sets current_person to the trimmed text of the nearest such line.
C4_NameFromPage ==
    [][ (LineRead /\ RawCategory[LastRaw'] = "person") =>
            \A page \in { CurPage' } :
              \A before \in { NonBlankBefore(page, Len(page)) } :
                before # {} => current_person' = Strip(page[Max(before)]) ]_vars

\* C4 witness: name line, blank line, marker on one page; the person is the
\* trimmed name.
C4_Witness ==
    /\ pages # <<>> /\ Len(CurPage) = 3
    /\ CurPage = <<NameLine, BlankLine, MarkerLine>>
    /\ current_person = <<W("Hans"), W("Muster")>>

\* C5 (as claimed): after a marker line for which the backward scan finds no
\* non-blank line, current_person is the sentinel "Unknown".
C5_UnresolvedIsUnknown ==
    [][ (LineRead /\ RawCategory[LastRaw'] = "person") =>
            \A page \in { CurPage' } :
              NonBlankBefore(page, Len(page)) = {}
                => current_person' = Unknown ]_vars

\* C10: the output holds exactly one record per line of the module category,
\* in the order of those lines in the input; nothing is dropped, merged or
\* reordered.
IsModuleRaw(l) == RawCategory[l] = "module"

\* What a record holds of its module line.
LineFields(rec) ==
    <<rec.id, rec.title, rec.status, rec.T_Ist, rec.T_Soll,
      rec.P_Ist, rec.P_Soll, rec.K_Ist, rec.K_Soll>>

C10_OneRecordPerModuleLine ==
    \A modLines \in { SelectSeq(Concat(pages), IsModuleRaw) } :
       /\ Len(modules) = Len(modLines)
       /\ \A k \in 1..Len(modLines) :
            \A line \in { Strip(modLines[k]) } :
               LineFields(modules[k]) = LineFields(ModuleRecord(ParseState, line))

\* C10 witness: the same module line read twice for the same person gave two
\* equal records, followed by the record of a different module line.
C10_Witness ==
    /\ Len(modules) = 3
    /\ modules[1] = modules[2]
    /\ modules[1].id = "M1.1" /\ modules[3].id = "M2"

\* The raw lines that have the structure of a module record, whatever else
\* they contain.
RawHasModule == [l \in LineSet |-> ModuleMatches(Strip(l))]
HasModuleRaw(l) == RawHasModule[l]

\* C17 (as claimed): every line read that has the module-record structure
\* gave exactly one record, in the order of the lines, whatever else the
\* line contains.
C17_EveryModuleLineEmits ==
    \A modLines \in { SelectSeq(Concat(pages), HasModuleRaw) } :
       /\ Len(modules) = Len(modLines)
       /\ \A k \in 1..Len(modLines) :
            LineFields(modules[k])
              = LineFields(ModuleRecord(ParseState, Strip(modLines[k])))

\* C18: a line that is read changes only the part of the parse state that
\* belongs to its category: a metadata line stores the line under exactly
\* one key and leaves every other key, the person, the tier and the records
\* as they are; a tier-header line sets the tier to the code that follows
\* "MGA -" and leaves the rest; a module line appends one record and leaves
\* person, tier and metadata; a blank or an unrecognized line changes
\* nothing.
C18_FrameOfEachCategory ==
    [][ LineRead =>
        \E line \in { LastLine' } : \E cat \in { RawCategory[LastRaw'] } :
           /\ cat = "meta" =>
                /\ <<current_person', current_qs', modules'>>
                      = <<current_person, current_qs, modules>>
                /\ Cardinality({ k \in DOMAIN current_meta' :
                                   k \notin DOMAIN current_meta
                                   \/ current_meta'[k] # current_meta[k] }) <= 1
                /\ DOMAIN current_meta \subseteq DOMAIN current_meta'
                /\ Cardinality(DOMAIN current_meta' \ DOMAIN current_meta) <= 1
                /\ \E k \in DOMAIN current_meta' :
                      /\ current_meta'[k] = line
                      /\ MetaMatches(k, line)
                      /\ \A h \in DOMAIN current_meta' \ {k} :
                            /\ h \in DOMAIN current_meta
                            /\ current_meta'[h] = current_meta[h]
           /\ cat = "qs" =>
                /\ <<current_person', current_meta', modules'>>
                      = <<current_person, current_meta, modules>>
                /\ current_qs' \in QSCodes
                /\ \E p \in 1..(Len(line) - 2) :
                      /\ line[p] = W("MGA") /\ line[p + 1] = W("-")
                      /\ line[p + 2] = W(current_qs')
           /\ cat = "module" =>
                /\ <<current_person', current_qs', current_meta'>>
                      = <<current_person, current_qs, current_meta>>
                /\ \E rec \in { modules'[Len(modules')] } :
                      modules' = Append(modules, rec)
           /\ cat \in {"blank", "unrecognized"} =>
                <<current_person', current_qs', current_meta', modules'>>
                  = <<current_person, current_qs, current_meta, modules>> ]_vars

\* C18 witness: two metadata lines stored two keys side by side, and the
\* tier header after them set the tier and left both.
C18_Witness ==
    /\ pages # <<>>
    /\ CurPage = <<MetaEHLine, MetaTwoLine, QSLine>>
    /\ DOMAIN current_meta = {"Erste Hilfe", "Atemschutz"}
    /\ current_meta["Erste Hilfe"] = Strip(MetaEHLine)
    /\ current_meta["Atemschutz"] = Strip(MetaTwoLine)
    /\ current_qs = "QS1"
    /\ modules = <<>>
    /\ current_person = Unknown

\* The positions, in the document read so far, of the lines that gave the
\* records (C10), in order.
ModulePositions(doc) == { j \in 1..Len(doc) : RawCategory[doc[j]] = "module" }
ModulePosition(doc, k) ==
    CHOOSE j \in ModulePositions(doc) :
        Cardinality({ i \in ModulePositions(doc) : i <= j }) = k

SameContext(a, b) ==
    /\ a.person_name = b.person_name
    /\ a.qs_level = b.qs_level
    /\ a.meta = b.meta

\* Two successive records whose module lines have only blank or unrecognized
\* lines between them, on whatever pages the lines are, carry the same
\* person, tier and metadata.
ContextCarried ==
    \A doc \in { Concat(pages) } :
       \A k \in 1..(Len(modules) - 1) :
          (\A j \in (ModulePosition(doc, k) + 1)..(ModulePosition(doc, k + 1) - 1) :
              RawCategory[doc[j]] \in {"blank", "unrecognized"})
            => SameContext(modules[k], modules[k + 1])

\* C19: the parse state is carried across page boundaries: opening a page,
\* with or without text, changes neither person, tier, metadata context nor
\* the records, and a module line after a page break, with no marker,
\* tier-header or metadata line in between, is emitted with the person,
\* tier and metadata of the module line before the break.
C19_StateAcrossPages ==
    /\ []ContextCarried
    /\ [][ Len(pages') # Len(pages) =>
              <<current_person', current_qs', current_meta', modules'>>
                = <<current_person, current_qs, current_meta, modules>> ]_vars

\* C19 witness: a tier header and a module line on the first page, a module
\* line on the second page: both records are of tier QS1.
C19_Witness ==
    /\ Len(pages) = 2
    /\ pages[1] = <<QSLine, ModALine>>
    /\ pages[2] = <<ModBLine>>
    /\ Len(modules) = 2
    /\ modules[1].qs_level = "QS1"
    /\ SameContext(modules[1], modules[2])

\* The number of lines on the pages before page p.
Offset(p) == Len(Concat(SubSeq(pages, 1, p - 1)))

\* Every record is of "Unknown" or of a name that a marker line, read
\* before the record's module line, took from the nearest non-blank line
\* before it on its own page.
RecordsNamed ==
    \A doc \in { Concat(pages) } :
       \A k \in 1..Len(modules) :
          \/ modules[k].person_name = Unknown
          \/ \E p \in 1..Len(pages) : \E i \in 1..Len(pages[p]) :
                /\ RawCategory[pages[p][i]] = "person"
                /\ Offset(p) + i < ModulePosition(doc, k)
                /\ NonBlankBefore(pages[p], i) # {}
                /\ modules[k].person_name
                     = Strip(pages[p][Max(NonBlankBefore(pages[p], i))])

\* C20: the person changes only when a marker line is read, a record is
\* emitted for the person current at its module line, every record's person
\* is "Unknown" or the trimmed non-blank line nearest before an earlier
\* marker on the marker's page, and once a name is resolved the person is
\* never "Unknown" again (no name line of the input reads "Unknown").
C20_PersonOnlyAtMarkers ==
    /\ []RecordsNamed
    /\ [][ /\ current_person' # current_person =>
                 (LineRead /\ RawCategory[LastRaw'] = "person")
           /\ current_person # Unknown => current_person' # Unknown
           /\ Len(modules') > Len(modules) =>
                 modules'[Len(modules')].person_name = current_person ]_vars

\* C20 witness: a marker resolved a name on the first page, and a marker
\* at the top of the second page, with no line before it, left that name.
C20_Witness ==
    /\ Len(pages) = 2
    /\ pages[1] = <<NameLine, MarkerLine>>
    /\ pages[2] = <<MarkerLine>>
    /\ current_person = Strip(NameLine)
    /\ current_person # Unknown

\* --------------------------------------------- properties: metrics engine
Triple(r) == <<r.id, r.title, r.qs_level>>
Triples(frame) == { Triple(frame.rows[i]) : i \in 1..Len(frame.rows) }
RowsOf(frame, key) == { i \in 1..Len(frame.rows) : Triple(frame.rows[i]) = key }
DoneOf(frame, key) ==
    { i \in RowsOf(frame, key) : frame.rows[i].status = "Absolviert" }

RECURSIVE SumGesamt(_)
SumGesamt(entries) ==
    IF entries = <<>> THEN 0
    ELSE Head(entries).Gesamt + SumGesamt(Tail(entries))

\* C6 (as claimed): the module statistics of get_cohort_stats hold one entry
\* per distinct (id, title, qs_level) triple, the entry's Gesamt and
\* Absolventen count exactly the records equal to the triple in all three
\* fields, and the Gesamt values sum to the number of records.
C6_ModuleStatsByTriple ==
    (cohort # NoFrame /\ cohort # EmptyDict) =>
        LET ms == cohort.module_stats
        IN /\ Len(ms) = Cardinality(Triples(df))
           /\ { <<ms[i].ID, ms[i].Modul, ms[i].QS>> : i \in 1..Len(ms) }
                 = Triples(df)
           /\ \A i \in 1..Len(ms) :
                LET key == <<ms[i].ID, ms[i].Modul, ms[i].QS>>
                IN /\ ms[i].Gesamt = Cardinality(RowsOf(df, key))
                   /\ ms[i].Absolventen = Cardinality(DoneOf(df, key))
           /\ SumGesamt(ms) = Len(df.rows)

\* C7: every processed record with non-negative hours has
\* 0 <= Progress <= 100, Effective_Ist <= Total_Ist and
\* Effective_Ist <= Total_Soll, Effective_Ist being the sum over T, P, K of
\* min(Ist, Soll).
C7_ProgressBounds ==
    df # NoFrame =>
        \A i \in 1..Len(df.rows) :
            LET r == df.rows[i]
                capT == IF r.T_Ist <= r.T_Soll THEN r.T_Ist ELSE r.T_Soll
                capP == IF r.P_Ist <= r.P_Soll THEN r.P_Ist ELSE r.P_Soll
                capK == IF r.K_Ist <= r.K_Soll THEN r.K_Ist ELSE r.K_Soll
            IN /\ r.Progress.den > 0
               /\ RatLeq(Zero, r.Progress)
               /\ RatLeq(r.Progress, Hundred)
               /\ r.Effective_Ist = capT + capP + capK
               /\ r.Effective_Ist <= r.Total_Ist
               /\ r.Effective_Ist <= r.Total_Soll

\* C7 witness: a processed record with a surplus in T and a shortfall in P,
\* its progress strictly between 0 and 100.
C7_Witness ==
    /\ df # NoFrame /\ Len(df.rows) = 1
    /\ df.rows[1].T_Ist > df.rows[1].T_Soll
    /\ df.rows[1].P_Ist < df.rows[1].P_Soll
    /\ df.rows[1].Effective_Ist < df.rows[1].Total_Ist
    /\ RatLess(Zero, df.rows[1].Progress)
    /\ RatLess(df.rows[1].Progress, Hundred)

\* The raw record of a processed row, with the actual hours of category c
\* raised by d.
RawOf(r) ==
    [person_name |-> r.person_name, id |-> r.id, title |-> r.title,
     status |-> r.status, qs_level |-> r.qs_level,
     T_Ist |-> r.T_Ist, T_Soll |-> r.T_Soll, P_Ist |-> r.P_Ist,
     P_Soll |-> r.P_Soll, K_Ist |-> r.K_Ist, K_Soll |-> r.K_Soll]
Raised(r, c, d) ==
    CASE c = "T" -> [RawOf(r) EXCEPT !.T_Ist = @ + d]
      [] c = "P" -> [RawOf(r) EXCEPT !.P_Ist = @ + d]
      [] c = "K" -> [RawOf(r) EXCEPT !.K_Ist = @ + d]
IstOf(r, c) == CASE c = "T" -> r.T_Ist [] c = "P" -> r.P_Ist [] c = "K" -> r.K_Ist
SollOf(r, c) == CASE c = "T" -> r.T_Soll [] c = "P" -> r.P_Soll [] c = "K" -> r.K_Soll
Categories == { "T", "P", "K" }
Raises == { 30, 60, 600 }

\* C8: non-compensation.  For a processed record with Total_Soll > 0, a
\* shortfall in any one category keeps Progress below 100 whatever the other
\* categories hold, and raising the actual hours of a category that already
\* meets its target changes neither Effective_Ist nor Progress.
C8_NonCompensation ==
    df # NoFrame =>
        \A i \in 1..Len(df.rows) :
            LET r == df.rows[i]
            IN /\ (r.Total_Soll > 0 /\ \E c \in Categories : IstOf(r, c) < SollOf(r, c))
                    => RatLess(r.Progress, Hundred)
               /\ \A c \in Categories, d \in Raises :
                    IstOf(r, c) >= SollOf(r, c) =>
                        LET more == ProcessRow(Raised(r, c, d))
                        IN /\ more.Effective_Ist = r.Effective_Ist
                           /\ RatEq(more.Progress, r.Progress)
                           /\ (r.Total_Soll > 0 /\ \E c2 \in Categories :
                                   IstOf(r, c2) < SollOf(r, c2))
                                => RatLess(more.Progress, Hundred)

\* C8 witness: T 1:00/0:30, P 0:00/0:30, K 0:00/0:00 gives Effective_Ist
\* 0:30 of Total_Soll 1:00, Progress 50: the T surplus does not offset the P
\* shortfall.
C8_Witness ==
    /\ df # NoFrame /\ Len(df.rows) = 1
    /\ df.rows[1].T_Ist = 60 /\ df.rows[1].T_Soll = 30
    /\ df.rows[1].P_Ist = 0 /\ df.rows[1].P_Soll = 30
    /\ df.rows[1].K_Ist = 0 /\ df.rows[1].K_Soll = 0
    /\ df.rows[1].Total_Ist >= df.rows[1].Total_Soll
    /\ df.rows[1].Effective_Ist = 30
    /\ RatEq(df.rows[1].Progress, Rat(50, 1))

\* The table with the hour fields of record i replaced.
OtherHours == { <<0, 0, 0, 0, 0, 0>>, <<600, 30, 0, 60, 30, 30>> }
WithHours(raw, i, h) ==
    [raw EXCEPT ![i] = [@ EXCEPT !.T_Ist = h[1], !.T_Soll = h[2],
                                 !.P_Ist = h[3], !.P_Soll = h[4],
                                 !.K_Ist = h[5], !.K_Soll = h[6]]]

\* C9: get_summary_stats returns total_modules = number of records,
\* completed_modules = number of records with status "Absolviert" (between 0
\* and total_modules), overall_progress = 100 * completed / total for a
\* non-empty table and all fields zero for an empty one; overall_progress is
\* the same whatever the hour fields of the records are.
C9_SummaryStats ==
    (summary # NoFrame /\ df # NoFrame) =>
        LET n == Len(df.rows)
            done == Cardinality({ i \in 1..n : df.rows[i].status = "Absolviert" })
        IN /\ summary.total_modules = n
           /\ summary.completed_modules = done
           /\ 0 <= summary.completed_modules
           /\ summary.completed_modules <= summary.total_modules
           /\ n > 0 => /\ summary.overall_progress.den > 0
                       /\ summary.overall_progress.num * n
                            = 100 * done * summary.overall_progress.den
           /\ n = 0 => /\ summary.total_modules = 0
                       /\ summary.completed_modules = 0
                       /\ summary.total_hours_ist = 0
                       /\ summary.total_hours_soll = 0
                       /\ summary.overall_progress.num = 0
           /\ \A i \in 1..Len(raw_data), h \in OtherHours :
                RatEq(get_summary_stats(
                          process_training_data(WithHours(raw_data, i, h))
                      ).overall_progress,
                      summary.overall_progress)

\* C9 witness: a summary over three records of which exactly one is
\* completed, although the actual hours of the table equal its target hours.
C9_Witness ==
    /\ summary # NoFrame /\ df # NoFrame
    /\ summary.total_modules = 3
    /\ summary.completed_modules = 1
    /\ summary.total_hours_ist = summary.total_hours_soll
    /\ summary.total_hours_soll > 0

People(frame) == { frame.rows[i].person_name : i \in 1..Len(frame.rows) }
RowsOfPerson(frame, p) ==
    { i \in 1..Len(frame.rows) : frame.rows[i].person_name = p }
DoneOfPerson(frame, p) ==
    { i \in RowsOfPerson(frame, p) : frame.rows[i].status = "Absolviert" }

RECURSIVE SumTotal(_)
SumTotal(entries) ==
    IF entries = <<>> THEN 0
    ELSE Head(entries).Total + SumTotal(Tail(entries))

\* C11: get_cohort_stats partitions the records by person_name: total_people
\* is the number of distinct names, person_progress holds exactly one entry
\* per distinct name, the entry's Total, Completed and Progress are the
\* summary statistics of exactly that person's records, and the Total values
\* sum to the number of records; of an empty table the result is the empty
\* dictionary.
C11_PersonPartition ==
    cohort # NoFrame =>
        IF IsEmpty(df) THEN cohort = EmptyDict
        ELSE LET pp == cohort.person_progress
             IN /\ cohort.total_people = Cardinality(People(df))
                /\ Len(pp) = Cardinality(People(df))
                /\ { pp[i].Name : i \in 1..Len(pp) } = People(df)
                /\ \A i \in 1..Len(pp) :
                     /\ pp[i].Total = Cardinality(RowsOfPerson(df, pp[i].Name))
                     /\ pp[i].Completed
                           = Cardinality(DoneOfPerson(df, pp[i].Name))
                     /\ pp[i].Total > 0
                     /\ RatEq(pp[i].Progress,
                              Rat(pp[i].Completed * 100, pp[i].Total))
                /\ SumTotal(pp) = Len(df.rows)

\* C11 witness: a cohort of two people, one of them with two records of
\* which one is completed.
C11_Witness ==
    /\ cohort # NoFrame
    /\ ~IsEmpty(df)
    /\ cohort.total_people = 2
    /\ Len(df.rows) = 3
    /\ \E i \in 1..Len(cohort.person_progress) :
          /\ cohort.person_progress[i].Total = 2
          /\ cohort.person_progress[i].Completed = 1

\* The reorderings of a list of n records.
Perms(n) == { f \in [1..n -> 1..n] : \A i, j \in 1..n : f[i] = f[j] => i = j }
Permuted(seq, f) == [i \in 1..Len(seq) |-> seq[f[i]]]
Entries(seq) == { seq[i] : i \in 1..Len(seq) }

C13_NoTargetIsComplete ==
    df # NoFrame =>
        \A i \in 1..Len(df.rows) :
            \A row \in { df.rows[i] } :
              (row.T_Soll + row.P_Soll + row.K_Soll = 0) =>
                 /\ row.Total_Soll = 0
                 /\ row.Progress.den # 0
                 /\ row.Progress = Hundred

\* C13 witness: a record without required hours and with actual hours.
C13_Witness ==
    /\ df # NoFrame
    /\ \E i \in 1..Len(df.rows) :
          /\ df.rows[i].Total_Soll = 0
          /\ df.rows[i].Total_Ist > 0
          /\ df.rows[i].Effective_Ist = 0
          /\ df.rows[i].Progress = Hundred

\* C14 (as claimed): with zero input records nothing in the metrics path
\* fails: the processed table is empty, the summary is all zeros, the cohort
\* result is empty, the dashboard's list of people is empty, and no step of
\* the dashboard ends in an exception.
C14_EmptyInputNeverFails ==
    raw_data = <<>> =>
        /\ df # NoFrame => IsEmpty(df)
        /\ summary # NoFrame =>
              summary = [total_modules |-> 0, completed_modules |-> 0,
                         total_hours_ist |-> 0, total_hours_soll |-> 0,
                         overall_progress |-> Zero]
        /\ cohort # NoFrame => cohort = EmptyDict
        /\ valid_people # NoFrame => valid_people.people = {}
        /\ app_error = "none"

Known(frame) == { i \in 1..Len(frame.rows) : frame.rows[i].person_name # Unknown }

\* C16 (as claimed): the records of "Unknown" enter no aggregation: the
\* dashboard's list of people does not name it, the cohort result has no
\* per-person entry for it and counts none of its records in a per-module
\* entry, and the dashboard's module statistics count the records of the
\* other people only.
C16_UnknownExcluded ==
    /\ valid_people # NoFrame => Unknown \notin valid_people.people
    /\ (cohort # NoFrame /\ cohort # EmptyDict) =>
          /\ \A i \in 1..Len(cohort.person_progress) :
                cohort.person_progress[i].Name # Unknown
          /\ \A i \in 1..Len(cohort.module_stats) :
                cohort.module_stats[i].Gesamt
                  <= Cardinality({ j \in Known(df) :
                                     df.rows[j].id = cohort.module_stats[i].ID })
    /\ mod_stats # NoFrame =>
          \A g \in mod_stats.groups :
              \A key \in { <<g.ID, g.Modul, g.QS>> } :
                /\ g.Gesamt = Cardinality(RowsOf(df, key) \cap Known(df))
                /\ g.Absolventen = Cardinality(DoneOf(df, key) \cap Known(df))

\* ------------------------------------------- properties: failing upstream
\* C15: when pdfplumber raised during the extraction, at whatever page and
\* after however many records, the call ends with the error and hands no
\* list of records to its caller; a list is returned only by a call in
\* which nothing raised, and then it is the complete list.
C15_NoPartialResult ==
    /\ pdf_error => (result # NoResult /\ "records" \notin DOMAIN result)
    /\ (~pdf_error /\ result # NoResult) => result = [records |-> modules]

\* C15 witness: the failure comes on or after the second page, after the
\* first page produced a record.
C15_Witness ==
    /\ pdf_error
    /\ result = [error |-> TRUE]
    /\ Len(pages) = 2
    /\ pages[1] # <<>>
    /\ Len(modules) >= 1
=============================================================================
